---- MODULE Spec2Model ----
(***************************************************************************)
(* A model of api/index.py: the Replit bounty scraper (ReplitBountyScraper),*)
(* the Slack notifier, the BountyTracker dedup store and the Flask handlers *)
(* that drive them.                                                         *)
(*                                                                          *)
(* Texts are sequences of one-character strings.  The literal word "cycle"  *)
(* of the second price pattern is written as the single symbol "c", and any *)
(* markup between two text nodes of a page as the single symbol "<".        *)
(* Prices are kept in hundredths (float 2500.00 is 250000) so that the      *)
(* two-decimal amounts of the patterns stay integers.                       *)
(* A record id is the tuple of the values that the code formats into the    *)
(* string it feeds to md5, i.e. the format and the hash are taken to be     *)
(* injective.  Titles, links and ids are tuples throughout, so that any two *)
(* of them can be compared.  datetime.now() reads the variable today.       *)
(***************************************************************************)
EXTENDS Integers, Sequences, FiniteSets, TLC

\* ------------------------------------------------------------------ bounds
\* the longest element text that SpecPrice types character by character
MaxLen == 4

\* the most elements of a page that SpecParse builds
MaxElems == 3

\* the /scrape invocations counted in one process lifetime
MaxRuns == 5

\* ------------------------------------------------------------------ clock
\* datetime.now(), as a day number: what every record's posted_time and the
\* ids of the sample records are taken from
VARIABLE today

\* ------------------------------------------------------------- characters
Digits == {"0", "1", "5"}

Spaces == {" "}

IsDigit(ch) == ch \in Digits

DigitVal(ch) == IF ch = "0" THEN 0 ELSE IF ch = "1" THEN 1 ELSE 5

\* text[i] or "" beyond the end of the text
At(text, i) == IF i >= 1 /\ i <= Len(text) THEN text[i] ELSE ""

\* text[i..j]
Slice(text, i, j) == SubSeq(text, i, j)

\* ---------------------------------------------------------------- numbers
\* str.replace(',', ''): the text without its thousands separators
RECURSIVE StripCommas(_)
StripCommas(s) ==
    IF s = <<>> THEN <<>>
    ELSE IF Head(s) = "," THEN StripCommas(Tail(s))
    ELSE <<Head(s)>> \o StripCommas(Tail(s))

\* the value of a digit string, most significant digit first
RECURSIVE DigitsVal(_)
DigitsVal(s) ==
    IF s = <<>> THEN 0
    ELSE DigitsVal(SubSeq(s, 1, Len(s) - 1)) * 10 + DigitVal(s[Len(s)])

\* position of the decimal point in s, 0 when there is none
RECURSIVE DotPos(_, _)
DotPos(s, i) ==
    IF i > Len(s) THEN 0
    ELSE IF s[i] = "." THEN i
    ELSE DotPos(s, i + 1)

\* the hundredths of the digits after a decimal point: ".5" is 50, ".15" is 15
Hundredths(frac) ==
    IF Len(frac) = 1 THEN DigitVal(frac[1]) * 10 ELSE DigitsVal(frac)

\* float(s) with the decimal point of s at position d (0: none)
FloatAt(s, d) ==
    IF d = 0 THEN DigitsVal(s) * 100
    ELSE DigitsVal(SubSeq(s, 1, d - 1)) * 100 + Hundredths(SubSeq(s, d + 1, Len(s)))

\* float(s) in hundredths, for s made of digits with at most one ".dd" tail
\* (the only shapes the patterns and the indexing of a two-character match
\* can hand to float)
Float(s) == FloatAt(s, DotPos(s, 1))

\* float(x.replace(',', ''))
ToFloat(s) == Float(StripCommas(s))

Max2(a, b) == IF a >= b THEN a ELSE b

\* ---------------------------------------------------- regular expressions
\* number of digits at text[i], text[i+1], ..., at most cap of them
RECURSIVE DigitRun(_, _, _)
DigitRun(text, i, cap) ==
    IF cap = 0 \/ ~IsDigit(At(text, i)) THEN 0
    ELSE 1 + DigitRun(text, i + 1, cap - 1)

\* greedy (?:,\d{3})* from position j: the position after the last group
RECURSIVE SkipGroups(_, _)
SkipGroups(text, j) ==
    IF At(text, j) = "," /\ DigitRun(text, j + 1, 3) = 3
    THEN SkipGroups(text, j + 4)
    ELSE j

\* greedy (?:\.\d{2})? from position j
SkipCents(text, j) ==
    IF At(text, j) = "." /\ DigitRun(text, j + 1, 2) = 2 THEN j + 3 ELSE j

\* greedy \s* from position j
RECURSIVE SkipSpaces(_, _)
SkipSpaces(text, j) ==
    IF At(text, j) \in Spaces THEN SkipSpaces(text, j + 1) ELSE j

\* the rest of an amount after its n leading digits at position i
AfterDigits(text, i, n, cents) ==
    IF n = 0 THEN 0
    ELSE IF cents THEN SkipCents(text, SkipGroups(text, i + n))
    ELSE SkipGroups(text, i + n)

\* \d{1,3}(?:,\d{3})*(?:\.\d{2})? matched greedily at position i: the position
\* after the match, or 0 when text[i] is no digit.  Every part after the first
\* digits is optional, so the greedy choice is the match whenever nothing has
\* to follow the amount.
AmountEnd(text, i) == AfterDigits(text, i, DigitRun(text, i, 3), TRUE)

\* \d+(?:,\d{3})* matched greedily at position i, or 0
WholeEnd(text, i) == AfterDigits(text, i, DigitRun(text, i, Len(text)), FALSE)

\* the two shapes of number: "amount" is \d{1,3}(?:,\d{3})*(?:\.\d{2})?,
\* "whole" is \d+(?:,\d{3})*
NumberEnd(shape, text, i) ==
    IF shape = "amount" THEN AmountEnd(text, i) ELSE WholeEnd(text, i)

NumberChars(shape) ==
    IF shape = "amount" THEN Digits \cup {",", "."} ELSE Digits \cup {","}

\* first position from i on that holds none of the characters in chars
RECURSIVE RunEnd(_, _, _)
RunEnd(text, i, chars) ==
    IF At(text, i) \in chars THEN RunEnd(text, i + 1, chars) ELSE i

\* e when the greedy match from i ends at e > i, else 0
WholeRun(end, i, e) == IF e > i /\ end = e THEN e ELSE 0

\* The number of '<number>\s*cycles?' and of '<number>\s*-' starting at i: what
\* follows the number is no character of a number, so the number is the whole
\* run text[i..e-1] of such characters and must match as a whole (the
\* backtracking of the engine finds no other end).  The position after it, or 0.
NumberBefore(shape, text, i) ==
    WholeRun(NumberEnd(shape, text, i), i, RunEnd(text, i, NumberChars(shape)))

\* a match with one group text[from..end-1]: <<group, next>>, or <<>> for end 0
OneGroup(text, from, end, next) ==
    IF end = 0 THEN <<>> ELSE <<SubSeq(text, from, end - 1), next>>

\* r'\$(\d{1,3}(?:,\d{3})*(?:\.\d{2})?)' at position i: <<group, next>> or <<>>
DollarGroup(text, i, end) == OneGroup(text, i + 1, end, end)

MatchDollarAt(text, i) ==
    IF At(text, i) = "$" THEN DollarGroup(text, i, AmountEnd(text, i + 1))
    ELSE <<>>

\* r'(\d{1,3}(?:,\d{3})*(?:\.\d{2})?)\s*cycles?' at position i, the amount
\* ending before e and the word expected at c
CyclesWord(text, i, e, c) ==
    IF e # 0 /\ At(text, c) = "c" THEN OneGroup(text, i, e, c + 1) ELSE <<>>

CyclesAfter(text, i, e) == CyclesWord(text, i, e, SkipSpaces(text, e))

MatchCyclesAt(text, i) == CyclesAfter(text, i, NumberBefore("amount", text, i))

\* r'(<number>)\s*-\s*(<number>)' at position i, the first number ending
\* before e, the dash expected at m, the second number starting at q and
\* ending before f: <<group 1, group 2, next>> or <<>>
TwoGroups(text, i, e, q, f) ==
    IF f = 0 THEN <<>>
    ELSE <<SubSeq(text, i, e - 1), SubSeq(text, q, f - 1), f>>

SecondNumber(shape, text, i, e, q) ==
    TwoGroups(text, i, e, q, NumberEnd(shape, text, q))

DashAt(shape, text, i, e, m) ==
    IF e # 0 /\ At(text, m) = "-"
    THEN SecondNumber(shape, text, i, e, SkipSpaces(text, m + 1))
    ELSE <<>>

DashAfter(shape, text, i, e) == DashAt(shape, text, i, e, SkipSpaces(text, e))

MatchDashAt(shape, text, i) ==
    DashAfter(shape, text, i, NumberBefore(shape, text, i))

\* r'(\d+(?:,\d{3})*)\s*-\s*(\d+(?:,\d{3})*)' of _extract_bounty_data
MatchRangeAt(text, i) == MatchDashAt("whole", text, i)

\* r'(<amount>)\s*-\s*(<amount>)' of _extract_from_text
MatchTextRangeAt(text, i) == MatchDashAt("amount", text, i)

PatternAt(p, text, i) ==
    CASE p = "dollar" -> MatchDollarAt(text, i)
      [] p = "cycles" -> MatchCyclesAt(text, i)
      [] p = "range" -> MatchRangeAt(text, i)
      [] p = "textrange" -> MatchTextRangeAt(text, i)

\* re.findall(pattern, text): the groups of the non-overlapping matches, left
\* to right; a match is the tuple of its groups (a match with one group is the
\* 1-tuple that stands for the str).  m is the match at position i, or <<>>.
RECURSIVE FindAllFrom(_, _, _)
FindAllAfter(p, text, i, m) ==
    (IF m = <<>> THEN <<>> ELSE <<SubSeq(m, 1, Len(m) - 1)>>)
      \o FindAllFrom(p, text, IF m = <<>> THEN i + 1 ELSE m[Len(m)])

FindAllFrom(p, text, i) ==
    IF i > Len(text) THEN <<>>
    ELSE FindAllAfter(p, text, i, PatternAt(p, text, i))

FindAll(p, text) == FindAllFrom(p, text, 1)

\* -------------------------------------------- ReplitBountyScraper: prices
\* len(matches[0]): a match of a one-group pattern is a str, and its length is
\* the number of its characters; a match of the range pattern is a 2-tuple
PyLen(m) == IF Len(m) = 1 THEN Len(m[1]) ELSE Len(m)

\* matches[0][k]: a character of the str, or a group of the tuple
PyItem(m, k) == IF Len(m) = 1 THEN <<m[1][k + 1]>> ELSE m[k + 1]

\* price_patterns of _extract_bounty_data, in order
price_patterns == <<"dollar", "cycles", "range">>

\* PriceOfMatch with the first number of a range for the larger one
PriceOfMatchFirst(m) ==
    IF PyLen(m) = 2 THEN ToFloat(PyItem(m, 0)) ELSE ToFloat(m[1])

\* the body of the loop over price_patterns for one pattern with matches
PriceOfMatch(m) ==
    IF PyLen(m) = 2
    THEN Max2(ToFloat(PyItem(m, 0)), ToFloat(PyItem(m, 1)))
    ELSE ToFloat(m[1])

\* the loop over price_patterns from pattern k on: the first pattern with a
\* match decides, price_value stays 0 when none matches (float never raises on
\* what the patterns capture, so the except branch is never taken)
RECURSIVE PriceFrom(_, _)
PriceWith(text, k, matches) ==
    IF matches # <<>> THEN PriceOfMatch(matches[1]) ELSE PriceFrom(text, k + 1)

PriceFrom(text, k) ==
    IF k > Len(price_patterns) THEN 0
    ELSE PriceWith(text, k, FindAll(price_patterns[k], text))

ElementPrice(text) == PriceFrom(text, 1)

\* price_patterns of _extract_from_text, in order
text_patterns == <<"dollar", "textrange">>

\* the price of one match of the free-text tier
TextPriceOfMatch(m) ==
    IF Len(m) = 2 THEN Max2(ToFloat(m[1]), ToFloat(m[2])) ELSE ToFloat(m[1])

\* if price_value > 0
IfPositive(price_value) == IF price_value > 0 THEN <<price_value>> ELSE <<>>

\* the prices of the matches of one pattern, those that are positive
RECURSIVE PositivePrices(_)
PositivePrices(ms) ==
    IF ms = <<>> THEN <<>>
    ELSE IfPositive(TextPriceOfMatch(Head(ms))) \o PositivePrices(Tail(ms))

\* the prices _extract_from_text derives, in order: every match of the first
\* pattern, then every match of the second
RECURSIVE TextPricesFrom(_, _)
TextPricesFrom(content, k) ==
    IF k > Len(text_patterns) THEN <<>>
    ELSE PositivePrices(FindAll(text_patterns[k], content))
           \o TextPricesFrom(content, k + 1)

TextPrices(content) == TextPricesFrom(content, 1)

\* ------------------------------------------- ReplitBountyScraper: records
\* urls_to_try of scrape_bounties, in order
urls_to_try ==
    << "https://replit.com/bounties?status=open&order=creationDateDescending",
       "https://replit.com/bounties",
       "https://replit.com/site/bounties" >>

\* bounty_selectors of _parse_bounties, in order; an element of a page carries
\* the set of the selectors it matches (a ".bounty-card" element also matches
\* '[class*="bounty"]', a ".service-card" one '[class*="service"]')
bounty_selectors ==
    << "div[data-testid*=bounty]", ".bounty-card", ".service-card",
       "[class*=bounty]", "[class*=service]" >>

\* the raw_text of the records of the free-text tier and of the sample tier
ExtractedRaw == <<"Extracted from page content">>

SampleRaw == <<"Sample bounty for testing purposes">>

\* An Optional[Dict] is a sequence of at most one record: None is <<>>, which
\* is what _extract_bounty_data returns when it catches an exception.
None == <<>>

\* An href is a tuple: <<>> when there is none, <<"/", path>> for a path of
\* the site, <<url>> for an absolute URL.
\* An href that urlsplit rejects (ValueError: Invalid IPv6 URL):
BadHref == <<"http://[">>

\* urljoin(base_url, href): every base_url of urls_to_try has the origin
\* replit.com
UrlJoin(base_url, href) ==
    IF Head(href) = "/" THEN <<"https://replit.com">> \o href ELSE href

\* BountyDict with the time of extraction in the id
BountyDictTimed(title, price_value, link, element_text) ==
    [id |-> <<title, price_value, link, today>>,
     title |-> title,
     price |-> price_value,
     link |-> link,
     posted_time |-> today,
     raw_text |-> element_text]

\* _extract_bounty_data(element, base_url).  An element is
\* [sels, title, text, href]: the selectors it matches, the text of its first
\* title sub-element ("" when it has none), its flattened text, and the href of
\* its anchor (<<>> when it has no anchor or the anchor no href).
\* The dict it returns, lines 143-153:
BountyDict(title, price_value, link, element_text) ==
    [id |-> <<title, price_value, link>>,
     title |-> title,
     price |-> price_value,
     link |-> link,
     posted_time |-> today,
     raw_text |-> element_text]

ElementTitle(element) ==
    IF element.title # "" THEN <<element.title>> ELSE <<"Unknown Title">>

ElementLink(element, base_url) ==
    IF element.href # <<>> THEN UrlJoin(base_url, element.href) ELSE <<>>

ExtractBountyData(element, base_url) ==
    IF element.href = BadHref THEN None
    ELSE << BountyDict(ElementTitle(element), ElementPrice(element.text),
                       ElementLink(element, base_url), element.text) >>

\* the records of the matched elements, those that extracted without error
\* (if bounty: bounties.append(bounty))
RECURSIVE ExtractAll(_, _)
ExtractAll(elements, url) ==
    IF elements = <<>> THEN <<>>
    ELSE ExtractBountyData(Head(elements), url) \o ExtractAll(Tail(elements), url)

\* soup.select(selector): the elements that match selector k, in page order
RECURSIVE SelectElements(_, _)
SelectElements(page, k) ==
    IF page = <<>> THEN <<>>
    ELSE (IF k \in Head(page).sels THEN <<Head(page)>> ELSE <<>>)
           \o SelectElements(Tail(page), k)

\* the loop over bounty_selectors from selector k on: the first selector that
\* matches an element decides, and the loop breaks there
RECURSIVE StructuredFrom(_, _, _)
StructuredWith(page, url, k, bounty_elements) ==
    IF bounty_elements # <<>> THEN ExtractAll(bounty_elements, url)
    ELSE StructuredFrom(page, url, k + 1)

StructuredFrom(page, url, k) ==
    IF k > Len(bounty_selectors) THEN <<>>
    ELSE StructuredWith(page, url, k, SelectElements(page, k))

StructuredBounties(page, url) == StructuredFrom(page, url, 1)

\* html_content as the free-text tier reads it: the texts of all elements, each
\* after the markup that opens it
RECURSIVE RawContent(_)
RawContent(page) ==
    IF page = <<>> THEN <<>>
    ELSE <<"<">> \o Head(page).text \o RawContent(Tail(page))

RECURSIVE TextRecords(_, _)
TextRecords(prices, url) ==
    IF prices = <<>> THEN <<>>
    ELSE << [id |-> << <<"extracted">>, Head(prices), <<url>> >>,
             title |-> <<"Replit Service/Bounty", Head(prices)>>,
             price |-> Head(prices),
             link |-> <<url>>,
             posted_time |-> today,
             raw_text |-> ExtractedRaw] >>
           \o TextRecords(Tail(prices), url)

\* _extract_from_text(html_content, url)
ExtractFromText(html_content, url) == TextRecords(TextPrices(html_content), url)

\* _filter_recent_bounties: every record is kept
FilterRecentBounties(bs) == bs

\* OrFromText with the free-text records added whatever the first tier found
AndFromText(bs, page, url) == bs \o ExtractFromText(RawContent(page), url)

\* if not bounties: bounties = self._extract_from_text(html_content, url)
OrFromText(bs, page, url) ==
    IF bs = <<>> THEN ExtractFromText(RawContent(page), url) ELSE bs

\* _parse_bounties(html_content, url)
ParseBounties(page, url) ==
    FilterRecentBounties(OrFromText(StructuredBounties(page, url), page, url))

\* _get_sample_bounties() on the day `date`
GetSampleBounties(date) ==
    << [id |-> << <<"sample1">>, date >>,
        title |-> <<"Build a React Dashboard for Analytics">>,
        price |-> 250000,
        link |-> <<"https://replit.com/bounties/sample1">>,
        posted_time |-> date,
        raw_text |-> SampleRaw],
       [id |-> << <<"sample2">>, date >>,
        title |-> <<"Create a Discord Bot with Python">>,
        price |-> 150000,
        link |-> <<"https://replit.com/bounties/sample2">>,
        posted_time |-> date,
        raw_text |-> SampleRaw],
       [id |-> << <<"sample3">>, date >>,
        title |-> <<"Develop a Mobile App with Flutter">>,
        price |-> 500000,
        link |-> <<"https://replit.com/bounties/sample3">>,
        posted_time |-> date,
        raw_text |-> SampleRaw] >>

\* the sample set in place of an empty list
SampleIfEmpty(bs, date) == IF bs = <<>> THEN GetSampleBounties(date) ELSE bs

\* ScrapeFrom with the sample set returned also for a fetched page that yields
\* no record
RECURSIVE ScrapeFromOrSample(_, _, _)
ScrapeFromOrSample(responses, date, k) ==
    IF k > Len(urls_to_try) THEN GetSampleBounties(date)
    ELSE IF responses[k].status_code = 200
         THEN SampleIfEmpty(ParseBounties(responses[k].text, urls_to_try[k]), date)
    ELSE ScrapeFromOrSample(responses, date, k + 1)

\* ScrapeFrom with nothing returned when every URL fails
RECURSIVE ScrapeFromNoSample(_, _, _)
ScrapeFromNoSample(responses, date, k) ==
    IF k > Len(urls_to_try) THEN <<>>
    ELSE IF responses[k].status_code = 200
         THEN ParseBounties(responses[k].text, urls_to_try[k])
    ELSE ScrapeFromNoSample(responses, date, k + 1)

\* What requests.get gives for a URL is [status_code, text]: the status (0 when
\* the request raised instead of answering) and the page of the body.
\* The loop of scrape_bounties over urls_to_try from URL k on, responses[k]
\* being what the request to urls_to_try[k] gives.
RECURSIVE ScrapeFrom(_, _, _)
ScrapeFrom(responses, date, k) ==
    IF k > Len(urls_to_try) THEN GetSampleBounties(date)
    ELSE IF responses[k].status_code = 200
         THEN ParseBounties(responses[k].text, urls_to_try[k])
    ELSE ScrapeFrom(responses, date, k + 1)

\* scrape_bounties()
ScrapeBounties(responses, date) == ScrapeFrom(responses, date, 1)


\* ------------------------------------------------------- trigger_scrape
\* Unsent with the test against the tracker left out
UnsentUnfiltered(bs, sent) == bs

\* [b for b in bounties if not tracker.is_bounty_sent(b['id'])]
RECURSIVE Unsent(_, _)
Unsent(bs, sent) ==
    IF bs = <<>> THEN <<>>
    ELSE (IF Head(bs).id \in sent THEN <<>> ELSE <<Head(bs)>>)
           \o Unsent(Tail(bs), sent)

\* MaxFrom with >= for >: among equal prices the last record wins
RECURSIVE MaxFromLast(_, _)
MaxFromLast(best, rest) ==
    IF rest = <<>> THEN best
    ELSE MaxFromLast(IF Head(rest).price >= best.price THEN Head(rest) ELSE best,
                     Tail(rest))

\* max(bs, key=lambda x: x['price']) continued from the best record so far:
\* a later record replaces it only when its price is strictly greater
RECURSIVE MaxFrom(_, _)
MaxFrom(best, rest) ==
    IF rest = <<>> THEN best
    ELSE MaxFrom(IF Head(rest).price > best.price THEN Head(rest) ELSE best,
                 Tail(rest))

MaxByPrice(bs) == MaxFrom(Head(bs), Tail(bs))

\* ---------------------------------------------------------- BountyTracker
\* the storage file /tmp/sent_bounties.json: missing, valid JSON holding the
\* ids, or corrupt (empty, cut short, or JSON followed by the rest of a longer
\* earlier content); len is its length, counted in ids
NoFile == [kind |-> "missing", ids |-> {}, len |-> 0]

ValidFile(ids) == [kind |-> "valid", ids |-> ids, len |-> Cardinality(ids)]

CorruptFile(len) == [kind |-> "corrupt", ids |-> {}, len |-> len]

\* A file of valid JSON that the service did not write, by the shape of what
\* it holds; elems is what set() makes of the value under 'sent_bounties':
\*   "string"    {"sent_bounties": "ab"}    set() gives the characters
\*   "dict"      {"sent_bounties": {...}}   set() gives the keys
\*   "number"    {"sent_bounties": 5}       set() raises TypeError
\*   "nokey"     {"other": 1}               data.get gives the default []
\*   "notobject" [1]                        data.get raises AttributeError
\* and a file that exists and cannot be opened is "unreadable".
ShapedFile(shape, elems) ==
    [kind |-> shape, ids |-> elems, len |-> Cardinality(elems)]

\* the shapes from which set(data.get('sent_bounties', [])) returns elements
IterableShapes == {"valid", "string", "dict"}

\* load_sent_bounties on a tracker just constructed (sent_bounties = set()):
\* a missing file leaves the set empty; a file that cannot be opened or
\* parsed, or a value that set() rejects, raises and the handler sets it
\* empty; any other value is iterated into the set
LoadSentBounties(file) == IF file.kind \in IterableShapes THEN file.ids ELSE {}

\* open(storage_file, 'w') truncates the file
Truncated == CorruptFile(0)

\* A handle opened before writes `ids` at offset 0 when it is flushed: the file
\* holds exactly that JSON unless a longer content was written through another
\* handle since the truncation, whose tail then follows it.
Written(file, ids) ==
    IF Cardinality(ids) >= file.len THEN ValidFile(ids)
    ELSE CorruptFile(file.len)


\* ------------------------------------------------------------------ state
VARIABLES
    \* the world the service runs in
    site,             \* what each of the three URLs answers
    slack_webhook,    \* whether SLACK_WEBHOOK_URL is set in the environment
    storage,          \* the file /tmp/sent_bounties.json
    \* the global tracker
    sent_bounties,    \* tracker.sent_bounties
    \* one request handler per worker thread
    pc,               \* where the handler of each worker stands
    bounties,         \* its local `bounties`
    highest_bounty,   \* its local `highest_bounty` (an Optional)
    data,             \* the ids save_sent_bounties is about to dump
    resp,             \* the response it returned
    \* history
    marked,           \* ids marked through this tracker since its construction
    returned,         \* ids whose mark_bounty_sent ever returned
    lastSel,          \* the last selection made since the last mark: <<[list, rec]>>
    before,           \* what a restart would have loaded when the save opened the file
    \* the requests
    webhook_token,    \* WEBHOOK_TOKEN in the environment; <<>> when unset or empty
    request,          \* the request each worker is serving: its route and header
    log,              \* what the invocation of each worker has done so far
    invocations,      \* the /scrape invocations SpecRuns counts since the process started
    \* a single element under extraction (SpecPrice)
    text,             \* the flattened text of the element
    bounty,           \* <<what _extract_bounty_data returned>>, <<>> before
    \* a single scrape of a page (SpecParse)
    html,             \* the page the site serves
    statuses,         \* the status of the request to each URL
    scraped           \* <<what scrape_bounties returned>>, <<>> before

svars == <<today, site, slack_webhook, storage, sent_bounties, pc, bounties,
           highest_bounty, data, resp, marked, returned, lastSel, before>>

pvars == <<text, bounty>>

hvars == <<html, statuses, scraped>>

avars == <<webhook_token, request, log, invocations>>

vars == <<svars, pvars, hvars, avars>>

\* ----------------------------------------------------------------- bounds
\* the days a run of the service may fall on
Days == {1, 2}

\* the worker threads of the server (app.run serves each request in a thread)
Workers == {"w1", "w2"}

\* an element as soup.select returns it
Card(sels, title, txt, href) ==
    [sels |-> sels, title |-> title, text |-> txt, href |-> href]

\* a listing page: two cards of the same price after a dearer one
CardsPage ==
    << Card({2, 4}, "", <<"1", ",", "0", "0", "0", "-", "5", ",", "0", "0", "0">>, <<>>),
       Card({2, 4}, "Build a bot", <<"$", "1", ",", "5", "0", "0">>, <<"/", "bounties/1">>),
       Card({2, 4}, "Fix my site", <<"$", "1", ",", "5", "0", "0">>, <<"/", "bounties/2">>) >>

\* a page with no element that any selector or pattern matches
GarbagePage == << Card({}, "", <<"h", "i">>, <<>>) >>

Response(code, page) == [status_code |-> code, text |-> page]

\* what the three URLs answer, as the service may find them
SiteResponses ==
    { << Response(503, <<>>), Response(0, <<>>), Response(404, <<>>) >>,
      << Response(200, CardsPage), Response(200, CardsPage), Response(200, CardsPage) >>,
      << Response(503, <<>>), Response(200, GarbagePage), Response(200, CardsPage) >> }

\* ------------------------------------------------------------- responses
NoResp == [status |-> "", code |-> 0, message |-> "", bounty |-> <<>>]

Json(status, code, message, b) ==
    [status |-> status, code |-> code, message |-> message, bounty |-> b]

\* -------------------------------------------------------------- requests
\* the request a worker serves: the route and the Authorization header, a
\* sequence of symbols of which "Bearer " is one; <<>> is a missing header
NoRequest == [route |-> "", authorization |-> <<>>]

Request(route, authorization) == [route |-> route, authorization |-> authorization]

\* the values of WEBHOOK_TOKEN: unset, and a secret of two symbols
Secrets == {<<>>, <<"s", "x">>}

\* the Authorization headers a request may carry: none, the secret as a bearer
\* token, another bearer token, the secret with no scheme, and a bearer token
\* that differs from the secret by an inner "Bearer "
Headers ==
    { <<>>,
      <<"Bearer ", "s", "x">>,
      <<"Bearer ", "x">>,
      <<"s", "x">>,
      <<"Bearer ", "s", "Bearer ", "x">> }

\* .replace('Bearer ', ''): every occurrence is removed, wherever it stands
IsNotBearer(c) == c # "Bearer "

ProvidedToken(authorization) == SelectSeq(authorization, IsNotBearer)

\* the id of the record /test-slack sends
TestBountyId == <<"test_bounty">>

\* what an invocation has done: the POSTs it made to Slack, the id of the
\* record Slack answered 200 for, and the ids it added to the tracker's set
NoLog == [posts |-> 0, ok |-> <<>>, added |-> {}]

Posted(l, delivered, id) ==
    [l EXCEPT !.posts = @ + 1, !.ok = IF delivered THEN <<id>> ELSE @]

\* ------------------------------------------------------------------- Init
EnvIdle ==
    /\ request = [t \in Workers |-> NoRequest]
    /\ log = [t \in Workers |-> NoLog]
    /\ invocations = 0

EnvInit == webhook_token = <<>> /\ EnvIdle

ServiceInit ==
    /\ today \in Days
    /\ site \in SiteResponses
    /\ slack_webhook \in BOOLEAN
    /\ storage = NoFile
    /\ sent_bounties = LoadSentBounties(NoFile)
    /\ pc = [t \in Workers |-> "idle"]
    /\ bounties = [t \in Workers |-> <<>>]
    /\ highest_bounty = [t \in Workers |-> <<>>]
    /\ data = [t \in Workers |-> {}]
    /\ resp = [t \in Workers |-> NoResp]
    /\ marked = {}
    /\ returned = {}
    /\ lastSel = <<>>
    /\ before = [t \in Workers |-> {}]

PriceIdle == text = <<>> /\ bounty = <<>>

ParseIdle == html = <<>> /\ statuses = <<>> /\ scraped = <<>>

Init == ServiceInit /\ EnvInit /\ PriceIdle /\ ParseIdle

\* ------------------------------------------------------ the /scrape handler
\* trigger_scrape up to the return of scrape_bounties: lines 393-404
TriggerScrape(t) ==
    /\ bounties' = [bounties EXCEPT ![t] = ScrapeBounties(site, today)]
    /\ IF bounties'[t] = <<>>
       THEN /\ pc' = [pc EXCEPT ![t] = "done"]
            /\ resp' = [resp EXCEPT ![t] =
                          Json("success", 200, "No bounties found", <<>>)]
       ELSE /\ pc' = [pc EXCEPT ![t] = "select"]
            /\ resp' = [resp EXCEPT ![t] = NoResp]

\* POST /scrape
Scrape(t) ==
    /\ pc[t] = "idle"
    /\ request' = [request EXCEPT ![t] = Request("/scrape", <<>>)]
    /\ TriggerScrape(t)
    /\ UNCHANGED <<today, site, slack_webhook, storage, sent_bounties,
                   highest_bounty, data, marked, returned, lastSel, before,
                   pvars, hvars, webhook_token, invocations, log>>

\* Select with the chosen record marked when no webhook is configured
SelectMarking(t) ==
    /\ pc[t] = "select"
    /\ LET unsent_bounties == Unsent(bounties[t], sent_bounties) IN
       IF unsent_bounties = <<>>
       THEN /\ pc' = [pc EXCEPT ![t] = "done"]
            /\ resp' = [resp EXCEPT ![t] =
                          Json("success", 200, "No new bounties to send", <<>>)]
            /\ highest_bounty' = highest_bounty
            /\ lastSel' = << [list |-> bounties[t], rec |-> <<>>] >>
            /\ sent_bounties' = sent_bounties
       ELSE /\ highest_bounty' =
                 [highest_bounty EXCEPT ![t] = <<MaxByPrice(unsent_bounties)>>]
            /\ lastSel' = << [list |-> bounties[t], rec |-> highest_bounty'[t]] >>
            /\ IF slack_webhook
               THEN /\ pc' = [pc EXCEPT ![t] = "send"]
                    /\ resp' = resp
                    /\ sent_bounties' = sent_bounties
               ELSE /\ pc' = [pc EXCEPT ![t] = "done"]
                    /\ resp' = [resp EXCEPT ![t] =
                                  Json("warning", 200, "No Slack webhook configured",
                                       highest_bounty'[t])]
                    /\ sent_bounties' = sent_bounties \cup {highest_bounty'[t][1].id}
    /\ UNCHANGED <<today, site, slack_webhook, storage, bounties,
                   data, marked, returned, before, pvars, hvars, avars>>

\* the selection, lines 406-421 and 440-447: the filter against the tracker,
\* the maximum, and the lookup of the webhook
Select(t) ==
    /\ pc[t] = "select"
    /\ LET unsent_bounties == Unsent(bounties[t], sent_bounties) IN
       IF unsent_bounties = <<>>
       THEN /\ pc' = [pc EXCEPT ![t] = "done"]
            /\ resp' = [resp EXCEPT ![t] =
                          Json("success", 200, "No new bounties to send", <<>>)]
            /\ highest_bounty' = highest_bounty
            /\ lastSel' = << [list |-> bounties[t], rec |-> <<>>] >>
       ELSE /\ highest_bounty' =
                 [highest_bounty EXCEPT ![t] = <<MaxByPrice(unsent_bounties)>>]
            /\ lastSel' = << [list |-> bounties[t], rec |-> highest_bounty'[t]] >>
            /\ IF slack_webhook
               THEN /\ pc' = [pc EXCEPT ![t] = "send"]
                    /\ resp' = resp
               ELSE /\ pc' = [pc EXCEPT ![t] = "done"]
                    /\ resp' = [resp EXCEPT ![t] =
                                  Json("warning", 200, "No Slack webhook configured",
                                       highest_bounty'[t])]
    /\ UNCHANGED <<today, site, slack_webhook, storage, sent_bounties, bounties,
                   data, marked, returned, before, pvars, hvars, avars>>

\* Send with the record marked whatever the POST answers
SendMarkingAlways(t) ==
    /\ pc[t] = "send"
    /\ \E delivered \in BOOLEAN :
         /\ log' = [log EXCEPT ![t] = Posted(@, delivered, highest_bounty[t][1].id)]
         /\ IF delivered
            THEN /\ pc' = [pc EXCEPT ![t] = "mark"]
                 /\ resp' = resp
                 /\ sent_bounties' = sent_bounties
            ELSE /\ pc' = [pc EXCEPT ![t] = "done"]
                 /\ resp' = [resp EXCEPT ![t] =
                               Json("error", 500, "Failed to send Slack notification",
                                    highest_bounty[t])]
                 /\ sent_bounties' = sent_bounties \cup {highest_bounty[t][1].id}
    /\ UNCHANGED <<today, site, slack_webhook, storage, bounties,
                   highest_bounty, data, marked, returned, lastSel, before,
                   pvars, hvars, webhook_token, invocations, request>>

\* send_bounty_notification, lines 254-316 and 422-439: the POST answers 200,
\* or it answers something else or raises
Send(t) ==
    /\ pc[t] = "send"
    /\ \E delivered \in BOOLEAN :
         /\ log' = [log EXCEPT ![t] = Posted(@, delivered, highest_bounty[t][1].id)]
         /\ IF delivered
            THEN /\ pc' = [pc EXCEPT ![t] = "mark"]
                 /\ resp' = resp
            ELSE /\ pc' = [pc EXCEPT ![t] = "done"]
                 /\ resp' = [resp EXCEPT ![t] =
                               Json("error", 500, "Failed to send Slack notification",
                                    highest_bounty[t])]
    /\ UNCHANGED <<today, site, slack_webhook, storage, sent_bounties, bounties,
                   highest_bounty, data, marked, returned, lastSel, before,
                   pvars, hvars, webhook_token, invocations, request>>

\* Mark with every unsent record of the batch marked
MarkAll(t) ==
    /\ pc[t] = "mark"
    /\ sent_bounties' = sent_bounties \cup {bounties[t][i].id : i \in DOMAIN bounties[t]}
    /\ data' = [data EXCEPT ![t] = sent_bounties']
    /\ marked' = marked \cup {highest_bounty[t][1].id}
    /\ lastSel' = <<>>
    /\ log' = [log EXCEPT ![t].added = @ \cup (sent_bounties' \ sent_bounties)]
    /\ pc' = [pc EXCEPT ![t] = "open"]
    /\ UNCHANGED <<today, site, slack_webhook, storage, bounties, highest_bounty,
                   resp, returned, before, pvars, hvars, webhook_token, invocations, request>>

\* Mark with the id left out of the tracker's set
MarkForgetting(t) ==
    /\ pc[t] = "mark"
    /\ sent_bounties' = sent_bounties
    /\ data' = [data EXCEPT ![t] = sent_bounties']
    /\ marked' = marked \cup {highest_bounty[t][1].id}
    /\ lastSel' = <<>>
    /\ log' = [log EXCEPT ![t].added = @ \cup (sent_bounties' \ sent_bounties)]
    /\ pc' = [pc EXCEPT ![t] = "open"]
    /\ UNCHANGED <<today, site, slack_webhook, storage, bounties, highest_bounty,
                   resp, returned, before, pvars, hvars, webhook_token, invocations,
                   request>>

\* mark_bounty_sent up to the dump's list(self.sent_bounties): lines 355-358,
\* 341-344
Mark(t) ==
    /\ pc[t] = "mark"
    /\ sent_bounties' = sent_bounties \cup {highest_bounty[t][1].id}
    /\ data' = [data EXCEPT ![t] = sent_bounties']
    /\ marked' = marked \cup {highest_bounty[t][1].id}
    /\ lastSel' = <<>>
    /\ log' = [log EXCEPT ![t].added = @ \cup (sent_bounties' \ sent_bounties)]
    /\ pc' = [pc EXCEPT ![t] = "open"]
    /\ UNCHANGED <<today, site, slack_webhook, storage, bounties, highest_bounty,
                   resp, returned, before, pvars, hvars, webhook_token, invocations, request>>

\* the response of trigger_scrape after mark_bounty_sent returned: 427-433
Sent(t) ==
    /\ pc' = [pc EXCEPT ![t] = "done"]
    /\ resp' = [resp EXCEPT ![t] =
                  Json("success", 200, "Bounty notification sent successfully",
                       highest_bounty[t])]
    /\ returned' = returned \cup {highest_bounty[t][1].id}

\* open(self.storage_file, 'w'), line 345: it truncates the file, or it raises
\* and save_sent_bounties logs the error and returns
SaveOpen(t) ==
    /\ pc[t] = "open"
    /\ \/ /\ storage' = Truncated
          /\ before' = [before EXCEPT ![t] = LoadSentBounties(storage)]
          /\ pc' = [pc EXCEPT ![t] = "write"]
          /\ UNCHANGED <<resp, returned>>
       \/ /\ storage' = storage
          /\ before' = before
          /\ Sent(t)
    /\ UNCHANGED <<today, site, slack_webhook, sent_bounties, bounties,
                   highest_bounty, data, marked, lastSel, pvars, hvars, avars>>

\* json.dump and the close of the file, line 346: the dump reaches the file, or
\* the write raises with nothing or a part of it written; either way
\* save_sent_bounties returns
SaveWrite(t) ==
    /\ pc[t] = "write"
    /\ \/ storage' = Written(storage, data[t])
       \/ storage' = storage
       \/ storage' = CorruptFile(Max2(storage.len, Cardinality(data[t])))
    /\ Sent(t)
    /\ UNCHANGED <<today, site, slack_webhook, sent_bounties, bounties,
                   highest_bounty, data, marked, lastSel, before, pvars, hvars,
                   webhook_token, invocations, request, log>>

\* the response leaves; the worker is free for the next request
Return(t) ==
    /\ pc[t] = "done"
    /\ pc' = [pc EXCEPT ![t] = "idle"]
    /\ bounties' = [bounties EXCEPT ![t] = <<>>]
    /\ highest_bounty' = [highest_bounty EXCEPT ![t] = <<>>]
    /\ data' = [data EXCEPT ![t] = {}]
    /\ resp' = [resp EXCEPT ![t] = NoResp]
    /\ before' = [before EXCEPT ![t] = {}]
    /\ request' = [request EXCEPT ![t] = NoRequest]
    /\ log' = [log EXCEPT ![t] = NoLog]
    /\ UNCHANGED <<today, site, slack_webhook, storage, sent_bounties, marked,
                   returned, lastSel, pvars, hvars, webhook_token, invocations>>

\* The process ends at any point (a crash, a kill, a redeploy) and a new one
\* starts: the requests in flight are lost and the module-level
\* tracker = BountyTracker() loads the file, lines 321-336 and 362.
Restart ==
    /\ sent_bounties' = LoadSentBounties(storage)
    /\ pc' = [t \in Workers |-> "idle"]
    /\ bounties' = [t \in Workers |-> <<>>]
    /\ highest_bounty' = [t \in Workers |-> <<>>]
    /\ data' = [t \in Workers |-> {}]
    /\ resp' = [t \in Workers |-> NoResp]
    /\ marked' = {}
    /\ lastSel' = <<>>
    /\ before' = [t \in Workers |-> {}]
    /\ slack_webhook' \in BOOLEAN
    /\ request' = [t \in Workers |-> NoRequest]
    /\ log' = [t \in Workers |-> NoLog]
    /\ invocations' = 0
    /\ UNCHANGED <<today, site, storage, returned, pvars, hvars, webhook_token>>

Next ==
    \/ \E t \in Workers : Scrape(t)
    \/ \E t \in Workers : Select(t)
    \/ \E t \in Workers : Send(t)
    \/ \E t \in Workers : Mark(t)
    \/ \E t \in Workers : SaveOpen(t)
    \/ \E t \in Workers : SaveWrite(t)
    \/ \E t \in Workers : Return(t)
    \/ Restart

Spec == Init /\ [][Next]_vars


\* ------------------------------------------- SpecApi: every route of the app
\* POST /webhook/daily, lines 474-495: the token check, then trigger_scrape()
DailyWebhook(t) ==
    /\ pc[t] = "idle"
    /\ \E authorization \in Headers :
         /\ request' = [request EXCEPT ![t] = Request("/webhook/daily", authorization)]
         /\ IF webhook_token # <<>> /\ ProvidedToken(authorization) # webhook_token
            THEN /\ pc' = [pc EXCEPT ![t] = "done"]
                 /\ resp' = [resp EXCEPT ![t] = Json("", 401, "Unauthorized", <<>>)]
                 /\ bounties' = bounties
            ELSE TriggerScrape(t)
    /\ UNCHANGED <<today, site, slack_webhook, storage, sent_bounties,
                   highest_bounty, data, marked, returned, lastSel, before,
                   pvars, hvars, webhook_token, invocations, log>>

\* GET /bounties, lines 456-472: the scraped list goes out as it is
GetBounties(t) ==
    /\ pc[t] = "idle"
    /\ request' = [request EXCEPT ![t] = Request("/bounties", <<>>)]
    /\ bounties' = [bounties EXCEPT ![t] = ScrapeBounties(site, today)]
    /\ resp' = [resp EXCEPT ![t] = Json("success", 200, "bounties", <<>>)]
    /\ pc' = [pc EXCEPT ![t] = "done"]
    /\ UNCHANGED <<today, site, slack_webhook, storage, sent_bounties,
                   highest_bounty, data, marked, returned, lastSel, before,
                   pvars, hvars, webhook_token, invocations, log>>

\* TestSlack with the test record marked when Slack answers 200
TestSlackMarking(t) ==
    /\ pc[t] = "idle"
    /\ request' = [request EXCEPT ![t] = Request("/test-slack", <<>>)]
    /\ pc' = [pc EXCEPT ![t] = "done"]
    /\ IF ~slack_webhook
       THEN /\ resp' = [resp EXCEPT ![t] =
                          Json("error", 400, "SLACK_WEBHOOK_URL not configured", <<>>)]
            /\ UNCHANGED <<log, sent_bounties>>
       ELSE \E success \in BOOLEAN :
              /\ log' = [log EXCEPT ![t] = Posted(@, success, TestBountyId)]
              /\ sent_bounties' = IF success THEN sent_bounties \cup {TestBountyId}
                                   ELSE sent_bounties
              /\ resp' = [resp EXCEPT ![t] =
                            IF success
                            THEN Json("success", 200, "Test notification sent successfully", <<>>)
                            ELSE Json("error", 200, "Failed to send test notification", <<>>)]
    /\ UNCHANGED <<today, site, slack_webhook, storage, bounties,
                   highest_bounty, data, marked, returned, lastSel, before,
                   pvars, hvars, webhook_token, invocations>>

\* POST /test-slack, lines 497-530
TestSlack(t) ==
    /\ pc[t] = "idle"
    /\ request' = [request EXCEPT ![t] = Request("/test-slack", <<>>)]
    /\ pc' = [pc EXCEPT ![t] = "done"]
    /\ IF ~slack_webhook
       THEN /\ resp' = [resp EXCEPT ![t] =
                          Json("error", 400, "SLACK_WEBHOOK_URL not configured", <<>>)]
            /\ log' = log
       ELSE \E success \in BOOLEAN :
              /\ log' = [log EXCEPT ![t] = Posted(@, success, TestBountyId)]
              /\ resp' = [resp EXCEPT ![t] =
                            IF success
                            THEN Json("success", 200, "Test notification sent successfully", <<>>)
                            ELSE Json("error", 200, "Failed to send test notification", <<>>)]
    /\ UNCHANGED <<today, site, slack_webhook, storage, sent_bounties, bounties,
                   highest_bounty, data, marked, returned, lastSel, before,
                   pvars, hvars, webhook_token, invocations>>

\* GET /health, lines 381-388
HealthCheck(t) ==
    /\ pc[t] = "idle"
    /\ request' = [request EXCEPT ![t] = Request("/health", <<>>)]
    /\ resp' = [resp EXCEPT ![t] = Json("healthy", 200, "Replit Bounty Scraper", <<>>)]
    /\ pc' = [pc EXCEPT ![t] = "done"]
    /\ UNCHANGED <<today, site, slack_webhook, storage, sent_bounties, bounties,
                   highest_bounty, data, marked, returned, lastSel, before,
                   pvars, hvars, webhook_token, invocations, log>>

\* GET /, lines 364-379
Home(t) ==
    /\ pc[t] = "idle"
    /\ request' = [request EXCEPT ![t] = Request("/", <<>>)]
    /\ resp' = [resp EXCEPT ![t] = Json("active", 200, "Replit Bounty Scraper API", <<>>)]
    /\ pc' = [pc EXCEPT ![t] = "done"]
    /\ UNCHANGED <<today, site, slack_webhook, storage, sent_bounties, bounties,
                   highest_bounty, data, marked, returned, lastSel, before,
                   pvars, hvars, webhook_token, invocations, log>>

\* what the app may find at /tmp/sent_bounties.json when it starts: no file, a
\* file an earlier run of the service left, or one that something else wrote
StoredFiles ==
    { NoFile,
      ValidFile({}),
      ValidFile({<<"an earlier id">>}),
      CorruptFile(1),
      ShapedFile("unreadable", {}),
      ShapedFile("string", {<<"a">>, <<"b">>}),
      ShapedFile("dict", {<<"k">>}),
      ShapedFile("number", {}),
      ShapedFile("nokey", {}),
      ShapedFile("notobject", {}) }

\* no request is being served
Quiet == \A t \in Workers : pc[t] = "idle"

\* the app as deployed, one request at a time: one day, the listing page or a
\* page with nothing in it, and whatever file it finds when it starts
ApiInit ==
    /\ today = 1
    /\ site \in { << Response(200, CardsPage), Response(200, CardsPage), Response(200, CardsPage) >>,
                  << Response(503, <<>>), Response(200, GarbagePage), Response(200, CardsPage) >> }
    /\ slack_webhook \in BOOLEAN
    /\ storage \in StoredFiles
    /\ sent_bounties = LoadSentBounties(storage)
    /\ pc = [t \in Workers |-> "idle"]
    /\ bounties = [t \in Workers |-> <<>>]
    /\ highest_bounty = [t \in Workers |-> <<>>]
    /\ data = [t \in Workers |-> {}]
    /\ resp = [t \in Workers |-> NoResp]
    /\ marked = {}
    /\ returned = {}
    /\ lastSel = <<>>
    /\ before = [t \in Workers |-> {}]
    /\ webhook_token \in Secrets
    /\ EnvIdle
    /\ PriceIdle /\ ParseIdle

ApiNext ==
    \/ \E t \in Workers : Quiet /\ Scrape(t)
    \/ \E t \in Workers : Quiet /\ DailyWebhook(t)
    \/ \E t \in Workers : Quiet /\ GetBounties(t)
    \/ \E t \in Workers : Quiet /\ TestSlack(t)
    \/ \E t \in Workers : Quiet /\ HealthCheck(t)
    \/ \E t \in Workers : Quiet /\ Home(t)
    \/ \E t \in Workers : Select(t)
    \/ \E t \in Workers : Send(t)
    \/ \E t \in Workers : Mark(t)
    \/ \E t \in Workers : SaveOpen(t)
    \/ \E t \in Workers : SaveWrite(t)
    \/ \E t \in Workers : Return(t)
    \/ Restart

SpecApi == ApiInit /\ [][ApiNext]_vars

\* ------------------------- SpecRuns: /scrape invoked again and again, in turn
\* a listing page on which one card occurs twice
RepeatPage ==
    << Card({2, 4}, "Build a bot", <<"$", "1", ",", "5", "0", "0">>, <<"/", "bounties/1">>),
       Card({2, 4}, "Fix my site", <<"$", "1", "0", "0">>, <<"/", "bounties/2">>),
       Card({2, 4}, "Build a bot", <<"$", "1", ",", "5", "0", "0">>, <<"/", "bounties/1">>) >>

\* the site answers the same on every invocation: nothing (the sample set is
\* scraped), the listing page, or the page with the repeated card
RunSites ==
    { << Response(503, <<>>), Response(0, <<>>), Response(404, <<>>) >>,
      << Response(200, CardsPage), Response(200, CardsPage), Response(200, CardsPage) >>,
      << Response(200, RepeatPage), Response(200, RepeatPage), Response(200, RepeatPage) >> }

\* SLACK_WEBHOOK_URL is set, on one day, whatever file the tracker finds
RunsInit ==
    /\ today = 1
    /\ site \in RunSites
    /\ slack_webhook = TRUE
    /\ storage \in StoredFiles
    /\ sent_bounties = LoadSentBounties(storage)
    /\ pc = [t \in Workers |-> "idle"]
    /\ bounties = [t \in Workers |-> <<>>]
    /\ highest_bounty = [t \in Workers |-> <<>>]
    /\ data = [t \in Workers |-> {}]
    /\ resp = [t \in Workers |-> NoResp]
    /\ marked = {}
    /\ returned = {}
    /\ lastSel = <<>>
    /\ before = [t \in Workers |-> {}]
    /\ EnvInit
    /\ PriceIdle /\ ParseIdle

\* POST /scrape when no other request is being served, counted
ScrapeInTurn(t) ==
    /\ Quiet
    /\ invocations < MaxRuns
    /\ invocations' = invocations + 1
    /\ request' = [request EXCEPT ![t] = Request("/scrape", <<>>)]
    /\ TriggerScrape(t)
    /\ UNCHANGED <<today, site, slack_webhook, storage, sent_bounties,
                   highest_bounty, data, marked, returned, lastSel, before,
                   pvars, hvars, webhook_token, log>>

\* Slack answers 200 to every POST; the saves succeed or fail as they may; the
\* process may be restarted with the webhook still configured
RunsNext ==
    \/ \E t \in Workers : ScrapeInTurn(t)
    \/ \E t \in Workers : Select(t)
    \/ \E t \in Workers : Send(t) /\ pc'[t] = "mark"
    \/ \E t \in Workers : Mark(t)
    \/ \E t \in Workers : SaveOpen(t)
    \/ \E t \in Workers : SaveWrite(t)
    \/ \E t \in Workers : Return(t)
    \/ Restart /\ slack_webhook'

SpecRuns == RunsInit /\ [][RunsNext]_vars



\* ------------------------------------ SpecPrice: one element under extraction
\* the service at rest, while an extraction is looked at on its own
ServiceOff ==
    /\ today = 1
    /\ site = << Response(503, <<>>), Response(503, <<>>), Response(503, <<>>) >>
    /\ slack_webhook = FALSE
    /\ storage = NoFile
    /\ sent_bounties = {}
    /\ pc = [t \in Workers |-> "idle"]
    /\ bounties = [t \in Workers |-> <<>>]
    /\ highest_bounty = [t \in Workers |-> <<>>]
    /\ data = [t \in Workers |-> {}]
    /\ resp = [t \in Workers |-> NoResp]
    /\ marked = {}
    /\ returned = {}
    /\ lastSel = <<>>
    /\ before = [t \in Workers |-> {}]
    /\ EnvInit

\* the characters an element text is typed from
Alphabet == Digits \cup Spaces \cup {"$", ",", ".", "-", "c"}

\* longer texts, among them those of the specification's scenarios
ExampleTexts ==
    { <<"$", "1", ",", "5", "0", "0", ".", "0", "0">>,
      <<"$", "1", "5", ",", "0", "0", "0">>,
      <<"$", "1", "5", "0", "0">>,
      <<"$", "1", "5", "-", "5", "0", "0">>,
      <<"1", "0", "0", "-", "5", "0", "0">>,
      <<"5", "0", "0", " ", "-", " ", "1", "0", "0">>,
      <<"1", ",", "0", "0", "0", "-", "5", "0", "0">>,
      <<"1", ",", "5", "0", "0", " ", "c">>,
      <<"1", "5", " ", "c", " ", "1", "-", "5">>,
      <<"1", "5", "0", "0", " ", "c">>,
      <<"1", ".", "5", "0", "-", "5", ".", "1", "5">> }

\* the title and the anchor of the element under extraction
ElementShapes ==
    { [title |-> "", href |-> <<>>],
      [title |-> "Build a bot", href |-> <<"/", "bounties/42">>] }

PriceInit == ServiceOff /\ PriceIdle /\ ParseIdle

TypeChar ==
    /\ bounty = <<>>
    /\ Len(text) < MaxLen
    /\ \E ch \in Alphabet : text' = Append(text, ch)
    /\ UNCHANGED <<bounty, svars, hvars, avars>>

LoadExample ==
    /\ bounty = <<>>
    /\ text = <<>>
    /\ text' \in ExampleTexts
    /\ UNCHANGED <<bounty, svars, hvars, avars>>

ExtractElement ==
    /\ bounty = <<>>
    /\ \E shape \in ElementShapes :
         bounty' = << ExtractBountyData(Card({2, 4}, shape.title, text, shape.href),
                                        urls_to_try[2]) >>
    /\ UNCHANGED <<text, svars, hvars, avars>>

PriceNext == TypeChar \/ LoadExample \/ ExtractElement

SpecPrice == PriceInit /\ [][PriceNext]_vars

\* ------------------------------------------ SpecParse: one scrape of a page
\* the elements a page is built from
Elements ==
    { Card({1}, "Build a bot", <<"$", "1", "5", "0">>, <<"/", "bounties/1">>),
      Card({2, 4}, "Fix my site", <<"1", "-", "5">>, <<>>),
      Card({4}, "", <<"5", " ", "c">>, <<"https://example.test/b/3">>),
      Card({3, 5}, "Logo", <<"n", "o">>, <<>>),
      Card({2, 4}, "Broken", <<"$", "5">>, BadHref),
      Card({}, "", <<"$", "5", ".", "5", "0">>, <<>>),
      Card({}, "", <<"h", "i">>, <<>>) }

\* what a request may answer: 200, another status, or nothing (it raised)
StatusCodes == {200, 503, 0}

ParseInit == ServiceOff /\ PriceIdle /\ ParseIdle

AddElement ==
    /\ scraped = <<>>
    /\ Len(html) < MaxElems
    /\ \E e \in Elements : html' = Append(html, e)
    /\ UNCHANGED <<statuses, scraped, svars, pvars, avars>>

\* scrape_bounties against a site whose URLs answer with the codes chosen, the
\* page being the body of every 200 answer
ScrapePage ==
    /\ scraped = <<>>
    /\ \E codes \in [1..Len(urls_to_try) -> StatusCodes] :
         /\ statuses' = codes
         /\ scraped' =
              << ScrapeBounties(
                   [k \in 1..Len(urls_to_try) |->
                      Response(codes[k], IF codes[k] = 200 THEN html ELSE <<>>)],
                   today) >>
    /\ UNCHANGED <<html, svars, pvars, avars>>

\* what the URLs answered at the scrape: the page for a 200, nothing otherwise
PageResponses ==
    [k \in DOMAIN statuses |->
       Response(statuses[k], IF statuses[k] = 200 THEN html ELSE <<>>)]

\* time passes after a scrape
Tick ==
    /\ scraped # <<>>
    /\ today' \in Days
    /\ today' > today
    /\ UNCHANGED <<html, statuses, scraped>>
    /\ UNCHANGED <<site, slack_webhook, storage, sent_bounties, pc, bounties,
                   highest_bounty, data, resp, marked, returned, lastSel, before,
                   pvars, avars>>

\* a later scrape_bounties against the same site, unchanged
ScrapeAgain ==
    /\ scraped # <<>>
    /\ scraped' = << ScrapeBounties(PageResponses, today) >>
    /\ UNCHANGED <<html, statuses, svars, pvars, avars>>

ParseNext == AddElement \/ ScrapePage \/ Tick \/ ScrapeAgain

SpecParse == ParseInit /\ [][ParseNext]_vars


\* ======================================================== the properties
\* the steps of a handler, as seen from outside
SelectStep(t) == pc[t] = "select" /\ pc'[t] \in {"send", "done"}

SendFailStep(t) == pc[t] = "send" /\ pc'[t] = "done"

CrashInWrite(t) == pc[t] = "write" /\ pc'[t] = "idle"

\* what the selection of worker t just returned: <<record>>, or <<>> for none
Selected(t) == IF pc[t] = "done" /\ resp[t].bounty = <<>> THEN <<>>
               ELSE highest_bounty[t]

\* the positions of the records of bs whose id is not in the store
UnsentAt(bs, sent) == {i \in DOMAIN bs : bs[i].id \notin sent}

\* C1: two concurrent /scrape invocations over the same record set never have
\* both delivered a record of the same id with neither having marked it yet
\* (pc = "mark": the delivery succeeded, mark_bounty_sent has not run).
C1_NoDoubleDelivery ==
    \A t, u \in Workers :
        (t # u /\ pc[t] = "mark" /\ pc[u] = "mark" /\ bounties[t] = bounties[u])
            => highest_bounty[t][1].id # highest_bounty[u][1].id

\* C2: a selection that follows another selection over the same record list
\* with no mark in between returns the same record; and no selection returns a
\* record that was delivered and marked before it (in the life of the tracker).
C2_StableSelection ==
    [][\A t \in Workers : SelectStep(t) =>
         /\ (lastSel # <<>> /\ lastSel[1].list = bounties[t])
              => Selected(t)' = lastSel[1].rec
         /\ Selected(t)' # <<>> => Selected(t)'[1].id \notin marked]_vars

\* C2 witness: a record of the list was marked, and after that both workers
\* selected, with no mark in between, the same cheaper record.
C2_Witness ==
    \E t, u \in Workers :
        /\ t # u /\ pc[t] = "send" /\ pc[u] = "send" /\ lastSel # <<>>
        /\ bounties[t] = bounties[u]
        /\ highest_bounty[t] = highest_bounty[u]
        /\ \E i \in DOMAIN bounties[t] :
             /\ bounties[t][i].id \in marked
             /\ bounties[t][i].price > highest_bounty[t][1].price

\* C3: a failed delivery answers 500 with status "error" and the chosen record,
\* leaves the set and the file as they were, and the record, unless another
\* invocation has delivered it meanwhile, is what a selection over the same
\* list returns next.
C3_FailedDeliveryRetries ==
    [][\A t \in Workers : SendFailStep(t) =>
         /\ resp'[t].status = "error" /\ resp'[t].code = 500
         /\ resp'[t].bounty = highest_bounty[t]
         /\ sent_bounties' = sent_bounties
         /\ storage' = storage
         /\ highest_bounty[t][1].id \notin sent_bounties
              => /\ UnsentAt(bounties[t], sent_bounties') # {}
                 /\ MaxByPrice(Unsent(bounties[t], sent_bounties'))
                      = highest_bounty[t][1]]_vars

\* C3 witness: a worker answered 500 for a record that is still unsent, and the
\* other worker has selected that record.
C3_Witness ==
    \E t, u \in Workers :
        /\ t # u /\ pc[t] = "done" /\ resp[t].code = 500
        /\ resp[t].bounty # <<>>
        /\ resp[t].bounty[1].id \notin sent_bounties
        /\ pc[u] = "send" /\ highest_bounty[u] = resp[t].bounty

\* C4: every id whose mark_bounty_sent has returned is in the tracker's set, in
\* this process and in every later one.
C4_MarkedStaysSent == returned \subseteq sent_bounties

\* C5: a tracker started after a crash inside save_sent_bounties holds the set
\* that was durable before the save or the set the save was writing.
C5_CrashKeepsOldOrNew ==
    [][\A t \in Workers : CrashInWrite(t) =>
         sent_bounties' \in {before[t], data[t]}]_vars

\* C6: the selection returns none exactly when every record's id is in the
\* store, and otherwise the first record, in list order, among the unsent
\* records of maximum price; an empty list too is answered without a record.
C6_SelectsFirstMaximum ==
    [][\A t \in Workers :
         /\ SelectStep(t) =>
              LET bs == bounties[t]
                  U == UnsentAt(bs, sent_bounties)
              IN IF U = {}
                 THEN /\ pc'[t] = "done"
                      /\ resp'[t] = Json("success", 200, "No new bounties to send", <<>>)
                 ELSE \E i \in U :
                        /\ highest_bounty'[t] = <<bs[i]>>
                        /\ \A j \in U : /\ bs[j].price <= bs[i].price
                                        /\ bs[j].price = bs[i].price => i <= j
         /\ (pc[t] = "idle" /\ pc'[t] = "done") =>
              /\ bounties'[t] = <<>>
              /\ resp'[t].status = "success" /\ resp'[t].bounty = <<>>]_vars

\* C6 witness: with the dearest record already in the store, a worker selected
\* the first of two unsent records of the same price.
C6_Witness ==
    \E t \in Workers :
        /\ pc[t] = "send"
        /\ \E i, j, k \in DOMAIN bounties[t] :
             /\ bounties[t][k].id \in sent_bounties
             /\ bounties[t][k].price > bounties[t][i].price
             /\ i < j
             /\ bounties[t][i].price = bounties[t][j].price
             /\ bounties[t][i].id # bounties[t][j].id
             /\ bounties[t][j].id \notin sent_bounties
             /\ highest_bounty[t] = <<bounties[t][i]>>


\* ------------------------------------------------- properties of a scrape
\* some URL answered 200, so a page was parsed
Fetched == \E k \in DOMAIN statuses : statuses[k] = 200

\* the selectors that match an element of the page
MatchedSelectors == {k \in DOMAIN bounty_selectors : \E i \in DOMAIN html : k \in html[i].sels}

\* the elements of the first selector that matches: the ones the first tier
\* extracts from
MatchedElements ==
    {i \in DOMAIN html :
        \E k \in MatchedSelectors :
            /\ k \in html[i].sels
            /\ \A l \in MatchedSelectors : k <= l}

\* the first tier yields a record: a matched element extracts without error
Extracts == \E i \in MatchedElements : html[i].href # BadHref

\* the raw_text of the records scrape_bounties returned
ScrapedRaw == {scraped[1][i].raw_text : i \in DOMAIN scraped[1]}

ExtractedPrice == bounty[1][1].price

\* the text is digits, a dash at position d, digits
PlainRangeAt(d) ==
    /\ d > 1 /\ d < Len(text)
    /\ text[d] = "-"
    /\ \A i \in DOMAIN text : i # d => IsDigit(text[i])

\* C9: the first of the patterns dollar, cycles, range that matches the text
\* decides the price: the value of the matched amount for the first two, the
\* larger number of the range for the third, 0 when none matches.
C9_FirstPatternDecides ==
    bounty # <<>> =>
        LET dollar == FindAll("dollar", text)
            cycles == FindAll("cycles", text)
            range == FindAll("range", text)
        IN IF dollar # <<>> THEN ExtractedPrice = ToFloat(dollar[1][1])
           ELSE IF cycles # <<>> THEN ExtractedPrice = ToFloat(cycles[1][1])
           ELSE IF range # <<>>
                THEN ExtractedPrice = Max2(ToFloat(range[1][1]), ToFloat(range[1][2]))
           ELSE ExtractedPrice = 0

\* C10: when neither a dollar nor a cycles amount matches and a range does, the
\* price is the larger number of the first range, whichever is written first;
\* "100-500" gives 500.00, and a text "low-high" of digits the larger value.
C10_RangeGivesMaximum ==
    bounty # <<>> =>
        /\ (FindAll("dollar", text) = <<>> /\ FindAll("cycles", text) = <<>>
              /\ FindAll("range", text) # <<>>)
             => /\ ExtractedPrice
                     = Max2(ToFloat(FindAll("range", text)[1][1]),
                            ToFloat(FindAll("range", text)[1][2]))
                /\ ExtractedPrice >= ToFloat(FindAll("range", text)[1][1])
                /\ ExtractedPrice >= ToFloat(FindAll("range", text)[1][2])
        /\ \A d \in DOMAIN text :
             PlainRangeAt(d) =>
                 ExtractedPrice
                   = 100 * Max2(DigitsVal(SubSeq(text, 1, d - 1)),
                                DigitsVal(SubSeq(text, d + 1, Len(text))))
        /\ text = <<"1", "0", "0", "-", "5", "0", "0">> => ExtractedPrice = 50000

\* C10 witness: the element text "100-500" was extracted with price 500.00.
C10_Witness ==
    /\ bounty # <<>>
    /\ text = <<"1", "0", "0", "-", "5", "0", "0">>
    /\ ExtractedPrice = 50000


\* --------------------------------------------- properties of the service
\* every URL of the site fails
AllFail == \A k \in DOMAIN site : site[k].status_code # 200

\* the step in which the handler of worker t takes a request in
ScrapeStep(t) == pc[t] = "idle" /\ pc'[t] # "idle"

\* C11: when every URL fails, scrape_bounties returns the three sample records,
\* each with an id, and /scrape goes on to the selection with no error
\* response.
C11_AllFailGivesSample ==
    [][\A t \in Workers :
         (ScrapeStep(t) /\ request'[t].route = "/scrape" /\ AllFail) =>
             /\ Len(bounties'[t]) = 3
             /\ \A i \in 1..3 :
                  /\ bounties'[t][i].id # <<>>
                  /\ bounties'[t][i].raw_text = SampleRaw
                  /\ \A j \in 1..3 : i # j => bounties'[t][i].id # bounties'[t][j].id
             /\ <<bounties'[t][1].price, bounties'[t][2].price, bounties'[t][3].price>>
                  = <<250000, 150000, 500000>>
             /\ pc'[t] = "select"
             /\ resp'[t] = NoResp]_vars

\* C11 witness: with every URL failing, a /scrape has selected the dearest
\* sample record for delivery.
C11_Witness ==
    \E t \in Workers :
        /\ AllFail /\ request[t].route = "/scrape" /\ pc[t] = "send"
        /\ highest_bounty[t][1].price = 500000
        /\ highest_bounty[t][1].raw_text = SampleRaw

\* the step in which the json.dump of worker t reaches the file whole
PersistStep(t) == pc[t] = "write" /\ pc'[t] = "done" /\ storage'.kind = "valid"

\* C12: the persisted set only grows: the set a save leaves in the file
\* contains the set that was durable when that save opened the file.
C12_DurableSetGrows ==
    [][\A t \in Workers :
         PersistStep(t) => before[t] \subseteq LoadSentBounties(storage')]_vars

\* C14: with no webhook configured and an unsent record, the selection answers
\* "warning" with the first unsent record of maximum price, posts nothing and
\* leaves the set and the file as they were, so that the record is still the
\* one a selection over the list returns.
C14_NoWebhookWarns ==
    [][\A t \in Workers :
         (SelectStep(t) /\ ~slack_webhook /\ UnsentAt(bounties[t], sent_bounties) # {}) =>
             /\ pc'[t] = "done"
             /\ resp'[t].status = "warning" /\ resp'[t].code = 200
             /\ resp'[t].bounty = highest_bounty'[t]
             /\ \E i \in UnsentAt(bounties[t], sent_bounties) :
                  /\ highest_bounty'[t] = <<bounties[t][i]>>
                  /\ \A j \in UnsentAt(bounties[t], sent_bounties) :
                       /\ bounties[t][j].price <= bounties[t][i].price
                       /\ bounties[t][j].price = bounties[t][i].price => i <= j
             /\ log'[t].posts = 0 /\ log'[t].added = {}
             /\ sent_bounties' = sent_bounties
             /\ storage' = storage
             /\ highest_bounty'[t][1].id \notin sent_bounties']_vars

\* C14 witness: two invocations in turn were answered "warning" with the same
\* record, which is still unsent.
C14_Witness ==
    \E t, u \in Workers :
        /\ t # u /\ ~slack_webhook
        /\ pc[t] = "done" /\ resp[t].status = "warning"
        /\ pc[u] = "done" /\ resp[u].status = "warning"
        /\ resp[t].bounty = resp[u].bounty
        /\ resp[t].bounty[1].id \notin sent_bounties
        /\ log[t].posts = 0 /\ log[u].posts = 0


\* ------------------------------------------------ properties of the routes
\* the step in which worker t serves a request of the route from start to end
ServedStep(t, route) ==
    pc[t] = "idle" /\ pc'[t] = "done" /\ request'[t].route = route

\* the bearer token of an Authorization header: what follows the scheme
\* "Bearer " at its head (the header itself when it names no scheme)
BearerToken(authorization) ==
    IF authorization # <<>> /\ Head(authorization) = "Bearer "
    THEN Tail(authorization) ELSE authorization

\* C13: a tracker that finds the file missing, unreadable, corrupt or wrongly
\* shaped starts with the empty set (no mark has been made since it was
\* constructed), and a json.dump that reaches the file leaves a file from
\* which the set held at that persist is loaded.
C13_LoadRecovers ==
    /\ [](marked = {} /\ storage.kind # "valid" => sent_bounties = {})
    /\ [][\A t \in Workers :
            PersistStep(t) => LoadSentBounties(storage') = sent_bounties']_vars

\* C15: /webhook/daily with a secret configured and a bearer token that differs
\* from it is answered 401 and nothing else happens; with no secret, or with
\* the secret as token, the request does what /scrape does.
C15_DailyChecksToken ==
    [][\A t \in Workers :
         (ScrapeStep(t) /\ request'[t].route = "/webhook/daily") =>
             IF /\ webhook_token # <<>>
                /\ BearerToken(request'[t].authorization) # webhook_token
             THEN /\ resp'[t].code = 401
                  /\ pc'[t] = "done"
                  /\ bounties'[t] = <<>>
                  /\ log' = log
                  /\ sent_bounties' = sent_bounties
                  /\ storage' = storage
             ELSE /\ resp'[t].code # 401
                  /\ bounties'[t] = ScrapeBounties(site, today)
                  /\ pc'[t] = IF bounties'[t] = <<>> THEN "done" ELSE "select"
                  /\ resp'[t] = IF bounties'[t] = <<>>
                                THEN Json("success", 200, "No bounties found", <<>>)
                                ELSE NoResp]_vars

\* C17: /test-slack, GET /bounties, /health and / change neither the set nor
\* the file, whatever Slack and the site answer; /test-slack adds no id even
\* when Slack answers 200, and GET /bounties returns every scraped record,
\* sent or not.
C17_ReadOnlyRoutes ==
    [][\A t \in Workers :
         \A route \in {"/test-slack", "/bounties", "/health", "/"} :
             ServedStep(t, route) =>
                 /\ sent_bounties' = sent_bounties
                 /\ storage' = storage
                 /\ log'[t].added = {}
                 /\ route = "/bounties" =>
                      /\ bounties'[t] = ScrapeBounties(site, today)
                      /\ resp'[t].status = "success"
                 /\ route = "/test-slack" =>
                      (resp'[t].status = "success" <=> log'[t].ok = <<TestBountyId>>)]_vars

\* C17 witness: with an id in the store, /test-slack was delivered and the
\* test id is not in the store.
C17_Witness ==
    \E t \in Workers :
        /\ pc[t] = "done" /\ request[t].route = "/test-slack"
        /\ resp[t].status = "success"
        /\ log[t].ok = <<TestBountyId>>
        /\ sent_bounties # {}
        /\ TestBountyId \notin sent_bounties

C18_RemarkIsNoOp ==
    [][\A t \in Workers :
         /\ (pc[t] = "mark" /\ pc'[t] = "open" /\ log'[t].added = {})
              => sent_bounties' = sent_bounties
         /\ (pc[t] = "write" /\ pc'[t] = "done" /\ log[t].added = {}
               /\ before[t] = data[t])
              => LoadSentBounties(storage') = before[t]]_vars

\* C19: an id enters the set or the file only through an invocation of /scrape
\* or /webhook/daily that has, before that step, had its one POST to Slack
\* answered 200 for the record of that id.
C19_OnlyDeliveredIdsEnter ==
    [][\A id \in (sent_bounties' \cup storage'.ids) \ (sent_bounties \cup storage.ids) :
         \E t \in Workers :
             /\ pc[t] = "mark"
             /\ request[t].route \in {"/scrape", "/webhook/daily"}
             /\ log[t].posts = 1
             /\ log[t].ok = <<id>>
             /\ highest_bounty[t][1].id = id]_vars

\* C19 witness: an invocation has ended with the id of the record it delivered
\* in the set and in the file, and another record of its batch in neither.
C19_Witness ==
    \E t \in Workers :
        /\ pc[t] = "done" /\ log[t].ok # <<>>
        /\ log[t].ok[1] \in sent_bounties
        /\ storage.kind = "valid" /\ log[t].ok[1] \in storage.ids
        /\ \E i \in DOMAIN bounties[t] :
             bounties[t][i].id \notin sent_bounties \cup storage.ids

\* C20: an invocation makes at most one POST to Slack and adds at most one id
\* to the set, the id of the record it delivered.
C20_OneDeliveryOneMark ==
    \A t \in Workers :
        /\ log[t].posts <= 1
        /\ Cardinality(log[t].added) <= 1
        /\ log[t].added # {} => log[t].added = {log[t].ok[1]}
        /\ log[t].ok # <<>> => log[t].posts = 1

\* C20 witness: an invocation over a batch of three unsent records has ended
\* with one POST made, one id added and the two other records still unsent.
C20_Witness ==
    \E t \in Workers :
        /\ pc[t] = "done" /\ log[t].posts = 1
        /\ Cardinality(log[t].added) = 1
        /\ Len(bounties[t]) = 3
        /\ Cardinality({i \in DOMAIN bounties[t] : bounties[t][i].id \notin sent_bounties}) = 2

\* ---------------------------------------- properties of invocations in turn
\* the record list every invocation scrapes, and its distinct ids
Listed == ScrapeBounties(site, today)

ListedIds == {Listed[i].id : i \in DOMAIN Listed}

\* no handler is between its selection and its answer
Settled == \A t \in Workers : pc[t] \in {"idle", "done"}

\* the POST of the selected record to Slack is answered 200
DeliverStep(t) == pc[t] = "send" /\ pc'[t] = "mark"

\* C21: with an unchanged record list, a configured webhook and deliveries that
\* always succeed, the /scrape invocations a running service serves in turn
\* deliver records of pairwise distinct ids (the id delivered was never marked
\* by this tracker before) in non-increasing price order (every record of the
\* list delivered before costs at least as much); once as many invocations as
\* the list has distinct ids were served every id is marked; and an invocation
\* that finds every id marked answers "No new bounties to send" without a POST
\* to Slack.
C21_RunsExhaustTheList ==
    /\ [](Settled /\ invocations >= Cardinality(ListedIds)
             => ListedIds \subseteq sent_bounties)
    /\ [][\A t \in Workers :
            /\ DeliverStep(t) =>
                  /\ highest_bounty[t][1].id \notin marked
                  /\ \A i \in DOMAIN bounties[t] :
                        bounties[t][i].id \in marked
                          => bounties[t][i].price >= highest_bounty[t][1].price
            /\ SelectStep(t) /\ ListedIds \subseteq sent_bounties =>
                  /\ pc'[t] = "done"
                  /\ resp'[t].message = "No new bounties to send"
                  /\ log'[t].posts = 0]_vars

\* C21 witness: on the page with the repeated card, the invocation after as many
\* as the list has distinct ids answered that nothing new is left, every id of
\* the list having been delivered and marked by the invocations before it
C21_Witness ==
    \E t \in Workers :
        /\ pc[t] = "done"
        /\ request[t].route = "/scrape"
        /\ resp[t].message = "No new bounties to send"
        /\ Cardinality(ListedIds) < Len(Listed)
        /\ Cardinality(ListedIds) > 1
        /\ invocations = Cardinality(ListedIds) + 1
        /\ marked = ListedIds

====
